---- MODULE Spec2Model ----
(***************************************************************************)
(* The rule execution engine of @helptheweb/accessibility-engine           *)
(* (class AccessibilityEngine, src/unnamed/part_003) as a state machine.   *)
(*                                                                         *)
(* One action of the model is one macrotask of the JavaScript event loop:  *)
(* a call from the host (registerRule, registerRuleset, run), the expiry   *)
(* of a timer, or the settling of a promise a predicate was waiting on.    *)
(* Each action runs the code to the point where every continuation waits   *)
(* for another macrotask (the microtask queue is drained), so a rule whose *)
(* predicates return synchronously is evaluated inside the action that     *)
(* started it and no timer can fire in between.                            *)
(*                                                                         *)
(* this.results and this.errors are references: every reset at the start   *)
(* of run() allocates new arrays, and every push goes to the arrays the    *)
(* fields reference at that moment.  A report holds the arrays themselves, *)
(* not copies.  Arrays that this.results no longer references are never    *)
(* written again, so the model keeps the current ones only and numbers the *)
(* allocations by the run() call that made them.                           *)
(*                                                                         *)
(* The bucket arrays and the error log are kept as bags: the engine only   *)
(* pushes to them and hands them out, it never reads their order (the      *)
(* nodes of one entry are a sequence, in evaluation order).                *)
(***************************************************************************)
EXTENDS Integers, Sequences, FiniteSets, Bags, TLC

\* ------------------------------------------------------------------ bounds
\* number of run() calls explored
MaxRuns == 2
\* number of <img> elements of the audited document
NumImgs == 3
\* number of registerRule / registerRuleset calls after construction
MaxRegs == 1

\* ------------------------------------------------------- program constants
DefaultMaxElements == 5000

\* ---------------------------------------------------------------- helpers
Range(s) == {s[i] : i \in 1..Len(s)}

Min(a, b) == IF a < b THEN a ELSE b

\* ------------------------------------------------------------ the document
\* Elements are <<tag, n>>.  The document is
\*   html > body > ( img 1 .. img NumImgs, div > ( img 2 .. img NumImgs ), p )
\* flattened to what the selectors of the rule catalogue can tell apart: the
\* element context "div" holds every image but the first.
Html == <<"html", 1>>
Body == <<"body", 1>>
Div  == <<"div", 1>>
Para == <<"p", 1>>
Img(n) == <<"img", n>>

Imgs(from) == [i \in 1..(NumImgs - from + 1) |-> Img(from + i - 1)]

\* context.querySelectorAll(selector) of the DOM: the descendants of the
\* context that match, in document order; throws for a selector the DOM
\* cannot parse.  "textSelectors" stands for the tag list of line 307.
querySelectorAll(context, selector) ==
  CASE selector = "a["    -> [throws |-> TRUE,  els |-> <<>>]
    [] selector = "img"   -> [throws |-> FALSE,
                              els |-> IF context = Div THEN Imgs(2) ELSE Imgs(1)]
    [] selector = "p"     -> [throws |-> FALSE,
                              els |-> IF context = Div THEN <<>> ELSE <<Para>>]
    [] selector = "body"  -> [throws |-> FALSE,
                              els |-> IF context = Html THEN <<Body>> ELSE <<>>]
    [] selector = "textSelectors"
                          -> [throws |-> FALSE,
                              els |-> IF context = Div THEN <<>> ELSE <<Div, Para>>]
    [] OTHER              -> [throws |-> FALSE, els |-> <<>>]

\* doc.querySelector(selector) for the two document-level selectors: the
\* first match in the whole document, or null (the empty list here)
querySelector(selector) ==
  CASE selector = "html" -> <<Html>>
    [] selector = "body" -> <<Body>>
    [] OTHER             -> <<>>

\* ------------------------------------------------------------- predicates
\* What rule.evaluate(element, options) does is the rule author's business.
\* A behaviour is when the call settles and with what:
\*   t = "micro": returns a value, throws, or returns a promise that settles
\*                without waiting for a timer or I/O event;
\*   t = "macro": returns a promise that settles in a later macrotask;
\*   t = "never": returns a promise that never settles;
\*   kind = "throw" | "null" | "result", and for a result its two flags, each
\*   "true", "false" or "unset".
Res(p, i)  == [kind |-> "result", passed |-> p, incomplete |-> i]
Pass       == Res("true", "unset")
Fail       == Res("false", "unset")
NeedsWork  == Res("unset", "true")
Plain      == Res("unset", "unset")
Null       == [kind |-> "null",  passed |-> "unset", incomplete |-> "unset"]
Throw      == [kind |-> "throw", passed |-> "unset", incomplete |-> "unset"]

Beh(t, o) == [t |-> t, o |-> o]

\* the catalogue of predicates, by the number n of the element <<tag, n>>
Behaviour(evaluate, el) ==
  LET n == el[2] IN
  CASE evaluate = "alt"    -> Beh("micro", IF n % 2 = 1 THEN Fail ELSE Pass)
    [] evaluate = "mixed"  -> Beh("micro", CASE n % 3 = 1 -> Fail
                                             [] n % 3 = 2 -> Throw
                                             [] OTHER     -> Null)
    [] evaluate = "skip"   -> Beh("micro", Null)
    [] evaluate = "review" -> Beh("micro", CASE n = 1 -> Fail
                                             [] n = 2 -> NeedsWork
                                             [] OTHER -> Pass)
    [] evaluate = "slow"   -> CASE n = 1 -> Beh("macro", Pass)
                                [] n = 2 -> Beh("micro", Throw)
                                [] OTHER -> Beh("micro", Plain)
    [] evaluate = "hang"   -> IF n = 2 THEN Beh("never", Null)
                              ELSE Beh("micro", Pass)
    [] evaluate = "late"   -> Beh("macro", Null)
    [] OTHER               -> Beh("micro", Null)

\* ------------------------------------------------------------------ rules
\* A rule object: id, selector, evaluate ("" for a missing id, "none" for a
\* missing evaluate).  The descriptive fields (description, help, helpUrl,
\* impact, tags, explanation) are copied into bucket entries unread and are
\* left out.
Rule(id, selector, evaluate) ==
  [id |-> id, selector |-> selector, evaluate |-> evaluate]

\* The rules the factory registers, in registration order.  Every predicate
\* but those of img-slow and img-hang settles without a macrotask.
FactoryRules ==
  << Rule("img-alt", "img", "mixed"),
     Rule("img-slow", "img", "slow"),
     Rule("bad-sel", "a[", "alt"),
     Rule("img-hang", "img", "hang"),
     Rule("video", "video", "alt"),
     Rule("img-review", "img", "review"),
     Rule("root", "", "alt"),
     Rule("p-skip", "p", "skip") >>

\* The rulesets the factory registers: they share img-slow, and B lists
\* "later", an id no rule is registered under at construction.
FactoryRulesets ==
  ("A" :> <<"img-alt", "img-slow", "bad-sel">>) @@
  ("B" :> <<"img-slow", "img-hang", "video", "later">>)

\* The rule objects the host registers later: a rule for the id B already
\* lists, a new definition for img-slow (it matches the paragraph, which an
\* element context does not hold, and has nothing to report on it), an
\* object without id and one without evaluate.
RuleObjects ==
  { Rule("later", "img", "alt"), Rule("img-slow", "p", "late"),
    Rule("", "img", "alt"), Rule("later", "img", "none") }

RuleIds == {FactoryRules[i].id : i \in 1..Len(FactoryRules)} \cup {"later"}

\* The rulesets the host registers later under the name A: one with an id
\* twice and an id no rule is registered under, and one of two rules that
\* neither wait nor fail.
RulesetNames == {"A"}
IdLists == {<<"img-hang", "later", "img-hang">>, <<"video", "root">>}

\* ------------------------------------------------------------------ state
VARIABLES
  options,    \* this.options, fixed by the constructor
  rules,      \* this.rules: a Map, here the rule objects in insertion order
  rulesets,   \* this.rulesets: a function from the names set to id lists
  results,    \* this.results: the four arrays now referenced
  errors,     \* this.errors: the array now referenced
  runs,       \* one record per run() call, in call order
  tasks,      \* the _runRule calls that can still act, in call order
  regs,       \* registerRule / registerRuleset calls made since construction
  threw,      \* whether the host's last call was a registerRule that threw
  contrasts,  \* the calculateContrast calls made: arguments and result
  dom,        \* the document _getSelector is asked about
  targets,    \* the _getSelector calls made: element and result
  located,    \* the _getElements calls made: arguments and result
  scan,       \* the API's testUrl call: its phase, timers and return value
  api         \* the API process: its testUrl calls and its globals

\* the state of the engine, and the state of the utilities taken alone
engineVars == <<options, rules, rulesets, results, errors, runs, tasks, regs, threw>>
utilVars   == <<contrasts, dom, targets, located, scan, api>>

vars == <<engineVars, utilVars>>

Buckets == {"violations", "passes", "incomplete", "inapplicable"}

EmptyResults ==
  [violations |-> EmptyBag, passes |-> EmptyBag,
   incomplete |-> EmptyBag, inapplicable |-> EmptyBag]

NoEntry == <<"absent">>

\* The mutable part of the engine that one macrotask rewrites.
World == [results |-> results, errors |-> errors, runs |-> runs, tasks |-> tasks]

\* ------------------------------------------------------- records written
\* A RuleReport as pushed into a bucket.  run is not a field of the program:
\* it records which run() call's task pushed the entry.
Entry(rule, nodes, run) == [id |-> rule.id, nodes |-> nodes, run |-> run]

\* An ErrorRecord.  The program's records have type and message, the rule
\* records also rule, the selector record also selector; absent fields are
\* "-".  run is not a field of the program: it records whose task pushed it.
ErrorRec(type, rule, selector, run) ==
  [type |-> type, rule |-> rule, selector |-> selector, run |-> run]

\* this.errors.push(rec)
pushError(W, rec) ==
  [W EXCEPT !.errors = @ (+) SetToBag({rec})]

\* this.results[bucket].push(entry)
pushResult(W, bucket, entry) ==
  [W EXCEPT !.results[bucket] = @ (+) SetToBag({entry})]

\* ------------------------------------------------------------ _getElements
\* _getElements that asks the context for html and body like for any
\* other selector
getElementsInContext(selector, context) ==
  IF selector = "" THEN [els |-> <<context>>, failed |-> FALSE]
  ELSE LET q == IF selector = "*" THEN querySelectorAll(context, "textSelectors")
                ELSE querySelectorAll(context, selector)
       IN IF q.throws THEN [els |-> <<>>, failed |-> TRUE]
          ELSE [els |-> q.els, failed |-> FALSE]

\* _getElements whose catch block returns [] without logging
getElementsSilent(selector, context) ==
  IF selector = "" THEN [els |-> <<context>>, failed |-> FALSE]
  ELSE IF selector \in {"html", "body"}
    THEN [els |-> querySelector(selector), failed |-> FALSE]
  ELSE [els |-> querySelectorAll(context, selector).els, failed |-> FALSE]

\* [els, failed]: the elements located, and whether the catch block ran
\* (which pushes the selector_error record, see runRule).
getElements(selector, context) ==
  IF selector = "" THEN [els |-> <<context>>, failed |-> FALSE]
  ELSE IF selector \in {"html", "body"}
    THEN [els |-> querySelector(selector), failed |-> FALSE]
  ELSE LET q == IF selector = "*" THEN querySelectorAll(context, "textSelectors")
                ELSE querySelectorAll(context, selector)
       IN IF q.throws THEN [els |-> <<>>, failed |-> TRUE]
          ELSE [els |-> q.els, failed |-> FALSE]

\* ----------------------------------------------------------- _executeRule
Truthy(flag) == flag = "true"

\* the classification with the failure test ahead of the incomplete test
classifyFailureFirst(nodes) ==
  LET allPassed     == \A i \in 1..Len(nodes) : Truthy(nodes[i].passed)
      anyIncomplete == \E i \in 1..Len(nodes) : Truthy(nodes[i].incomplete)
  IN IF ~allPassed THEN "violations"
     ELSE IF anyIncomplete THEN "incomplete"
     ELSE "passes"

\* lines 277-287: the bucket of a rule with at least one node
classify(nodes) ==
  LET allPassed     == \A i \in 1..Len(nodes) : Truthy(nodes[i].passed)
      anyIncomplete == \E i \in 1..Len(nodes) : Truthy(nodes[i].incomplete)
  IN IF anyIncomplete THEN "incomplete"
     ELSE IF allPassed THEN "passes"
     ELSE "violations"

\* lines 259-265: the NodeResult of an element and its outcome (html and
\* target are functions of the element, which stands for both)
NodeResult(el, o) ==
  [element |-> el, passed |-> o.passed, incomplete |-> o.incomplete]

\* the loop body with the NodeResult put in front of the list
settleElementUnshift(W, k, o) ==
  LET t  == W.tasks[k]
      el == t.elements[t.idx]
  IN CASE o.kind = "throw" ->
            pushError(W, ErrorRec("element_error", t.rule.id, "-", t.run))
       [] o.kind = "null"  -> W
       [] OTHER ->
            [W EXCEPT !.tasks[k].nodes = <<NodeResult(el, o)>> \o @]

\* the loop body without the test of line 258: a falsy return adds a node too
settleElementKeepsNull(W, k, o) ==
  LET t  == W.tasks[k]
      el == t.elements[t.idx]
  IN IF o.kind = "throw"
     THEN [W EXCEPT !.errors = @ (+) SetToBag({[type |-> "element_error",
                       rule |-> t.rule.id, selector |-> "-", run |-> t.run]})]
     ELSE [W EXCEPT !.tasks[k].nodes =
             Append(@, [element |-> el, passed |-> o.passed,
                        incomplete |-> o.incomplete])]

\* lines 256-274, after the await: what the loop body does with the settled
\* outcome o of the evaluate call in flight for task k
settleElement(W, k, o) ==
  LET t  == W.tasks[k]
      el == t.elements[t.idx]
  IN CASE o.kind = "throw" ->
            pushError(W, ErrorRec("element_error", t.rule.id, "-", t.run))
       [] o.kind = "null"  -> W
       [] OTHER ->
            [W EXCEPT !.tasks[k].nodes = Append(@, NodeResult(el, o))]

\* lines 277-288 and the end of _runRule's await: file the rule; the race of
\* line 190 is won by the execution unless the timer has already rejected it
endExecute(W, k) ==
  LET t  == W.tasks[k]
      W1 == IF Len(t.nodes) > 0
            THEN pushResult(W, classify(t.nodes), Entry(t.rule, t.nodes, t.run))
            ELSE W
  IN [W1 EXCEPT !.tasks[k].exec = "ended",
                !.tasks[k].race = IF @ = "pending" THEN "won" ELSE @]

\* a loop in which every await of line 256 waits for a macrotask: the call
\* on the next element stays in flight whatever the predicate returns
evaluateLoopYields(W, k) ==
  LET t == W.tasks[k]
      i == t.idx + 1
  IN IF i > Len(t.elements) THEN endExecute(W, k)
     ELSE [W EXCEPT !.tasks[k].idx = i,
                    !.tasks[k].calls = Append(@, t.elements[i])]

RECURSIVE evaluateLoop(_, _)
\* lines 254-275 from the element after the one just settled: call evaluate
\* on the next element; go on at once when the call settles without a
\* macrotask, stop with the call in flight otherwise
evaluateLoop(W, k) ==
  LET t == W.tasks[k]
      i == t.idx + 1
  IN IF i > Len(t.elements) THEN endExecute(W, k)
     ELSE LET b  == Behaviour(t.rule.evaluate, t.elements[i])
              W1 == [W EXCEPT !.tasks[k].idx = i,
                              !.tasks[k].calls = Append(@, t.elements[i])]
          IN IF b.t = "micro" THEN evaluateLoop(settleElement(W1, k, b.o), k)
             ELSE W1

\* a slice that keeps one element more than the cap
elementsToCheckPlusOne(els, maxElements) ==
  SubSeq(els, 1, Min(Len(els), maxElements + 1))

\* line 244: elements.slice(0, this.options.maxElements)
elementsToCheck(els, maxElements) ==
  SubSeq(els, 1, Min(Len(els), maxElements))

\* lines 181-190 and 215-252: _runRule sets its timer and calls _executeRule,
\* which runs synchronously up to its first await
runRule(W, r, rule, context) ==
  LET k   == Len(W.tasks) + 1
      g   == getElements(rule.selector, context)
      chk == elementsToCheck(g.els, options.maxElements)
      t   == [run |-> r, rule |-> rule, located |-> Len(g.els),
              elements |-> chk, idx |-> 0, nodes |-> <<>>, calls |-> <<>>,
              exec |-> "awaiting", race |-> "pending"]
      W0  == [W EXCEPT !.tasks = Append(@, t)]
      W1  == IF g.failed
             THEN pushError(W0, ErrorRec("selector_error", "-", rule.selector, r))
             ELSE W0
  IN IF Len(g.els) = 0
     THEN [pushResult(W1, "inapplicable", Entry(rule, <<>>, r))
             EXCEPT !.tasks[k].exec = "ended", !.tasks[k].race = "won"]
     ELSE LET W2 == IF Len(g.els) > options.maxElements
                    THEN pushError(W1, ErrorRec("element_limit", rule.id, "-", r))
                    ELSE W1
          IN evaluateLoop(W2, k)

\* the catch block of _runRule without the push to incomplete
runRuleCatchLogOnly(W, k) ==
  LET t == W.tasks[k]
  IN [W EXCEPT !.errors = @ (+) SetToBag({[type |-> "rule_error",
                   rule |-> t.rule.id, selector |-> "-", run |-> t.run]}),
               !.tasks[k].race = "lost"]

\* lines 191-209: the rule's timer rejects the race of line 190 first
runRuleCatch(W, k) ==
  LET t  == W.tasks[k]
      W1 == pushError(W, ErrorRec("rule_error", t.rule.id, "-", t.run))
      W2 == pushResult(W1, "incomplete", Entry(t.rule, <<>>, t.run))
  IN [W2 EXCEPT !.tasks[k].race = "lost"]

\* ------------------------------------------------------------- registry
\* this.rules.get(id): the position of the rule with that id, 0 if none
ruleIndex(rs, id) ==
  IF \E i \in 1..Len(rs) : rs[i].id = id
  THEN CHOOSE i \in 1..Len(rs) : rs[i].id = id
  ELSE 0

\* a registry that keeps every definition it was given
mapSetAppend(rs, rule) == Append(rs, rule)

\* this.rules.set(rule.id, rule): a Map keeps the position of a key it has
mapSet(rs, rule) ==
  IF ruleIndex(rs, rule.id) = 0 THEN Append(rs, rule)
  ELSE [rs EXCEPT ![ruleIndex(rs, rule.id)] = rule]

\* lines 31-36; the rule objects offered include one without id and one
\* without evaluate
invalidRule(rule) == rule.id = "" \/ rule.evaluate = "none"

registerRuleEffect(rs, rule) ==
  IF invalidRule(rule) THEN rs ELSE mapSet(rs, rule)

RECURSIVE addAll(_, _)
\* ids.forEach(id => set.add(id)) on a Set, which keeps insertion order:
\* acc followed by the ids not yet in it, each once
addAll(acc, ids) ==
  IF ids = <<>> THEN acc
  ELSE addAll(IF ids[1] \in Range(acc) THEN acc ELSE Append(acc, ids[1]), Tail(ids))

RECURSIVE unionOfRulesets(_, _, _)
\* lines 164-169
unionOfRulesets(acc, names, sets) ==
  IF names = <<>> THEN acc
  ELSE LET ruleIds == IF names[1] \in DOMAIN sets THEN sets[names[1]] ELSE NoEntry
       IN unionOfRulesets(IF ruleIds = NoEntry THEN acc ELSE addAll(acc, ruleIds),
                          Tail(names), sets)

\* lines 156-176: the ids to run, in the iteration order of the Set
getRulesToRun(opts, rs, sets) ==
  IF opts.runOnly.set
  THEN unionOfRulesets(<<>>, opts.runOnly.names, sets)
  ELSE addAll(<<>>, [i \in 1..Len(rs) |-> rs[i].id])

\* ------------------------------------------------------------------ run()
Contexts == {"undefined", "document", "element", "window", "other"}

\* context resolution without the window branch of lines 78-81
resolveContextNoWindow(context, globalDocument) ==
  CASE context = "undefined" -> [ok |-> globalDocument, root |-> Html]
    [] context = "document"  -> [ok |-> TRUE, root |-> Html]
    [] context = "element"   -> [ok |-> TRUE, root |-> Div]
    [] OTHER                 -> [ok |-> FALSE, root |-> Html]

\* lines 59-84: the root element the rules run on, or the failure.  The
\* global document exists or not (typeof document).
resolveContext(context, globalDocument) ==
  CASE context = "undefined" -> [ok |-> globalDocument, root |-> Html]
    [] context = "document"  -> [ok |-> TRUE, root |-> Html]
    [] context = "element"   -> [ok |-> TRUE, root |-> Div]
    [] context = "window"    -> [ok |-> TRUE, root |-> Html]
    [] OTHER                 -> [ok |-> FALSE, root |-> Html]

\* Whether the caller's target is one run() can resolve: a document, an
\* element, a window-like object, or none while a global document exists.
\* Recorded with each run for the properties; the code's own decision is
\* resolveContext.
targetResolvable(context, globalDocument) ==
  \/ context \in {"document", "element", "window"}
  \/ context = "undefined" /\ globalDocument

\* the projection without the test of line 389: every listed type is a key
filterResultsUnchecked(opts) ==
  IF opts.resultTypes.set
  THEN Range(opts.resultTypes.types)
  ELSE Buckets

\* lines 384-398: the keys of the object spread into the report
filterResults(opts) ==
  IF opts.resultTypes.set
  THEN {type \in Range(opts.resultTypes.types) : type \in Buckets}
  ELSE Buckets

NoReport == [res |-> 0, keys |-> {}, errs |-> 0]

\* a run() that waits for its callback to return a promise that never
\* settles: with a callback the run stays at line 141
finishRunAwaitsCallback(W, r, cbThrows) ==
  LET run    == W.runs[r]
      report == [res  |-> Len(W.runs),
                 keys |-> filterResults(options),
                 errs |-> IF BagCardinality(W.errors) > 0 /\ ~options.silent
                          THEN Len(W.runs) ELSE 0]
  IN IF run.callback THEN [W EXCEPT !.runs[r].status = "in callback"]
     ELSE [W EXCEPT !.runs[r] =
             [run EXCEPT !.report   = report,
                         !.results0 = W.results,
                         !.errors0  = W.errors,
                         !.status   = "resolved"]]

\* the report assembly with the errors attached whenever the log is not
\* empty, silent or not
finishRunIgnoresSilent(W, r, cbThrows) ==
  LET run    == W.runs[r]
      report == [res  |-> Len(W.runs),
                 keys |-> filterResults(options),
                 errs |-> IF BagCardinality(W.errors) > 0
                          THEN Len(W.runs) ELSE 0]
  IN [W EXCEPT !.runs[r] =
        [run EXCEPT !.report   = report,
                    !.results0 = W.results,
                    !.errors0  = W.errors,
                    !.status   = IF run.callback /\ cbThrows
                                 THEN "rejected" ELSE "resolved",
                    !.cbThrew  = run.callback /\ cbThrows,
                    !.cbCalls  = IF ~run.callback THEN <<>>
                                 ELSE IF cbThrows THEN <<"report", "error">>
                                 ELSE <<"report">>]]

\* lines 117-150: assemble the report and hand it over.  The report holds
\* the arrays this.results references now (res numbers the allocation) and,
\* when the log is not empty and silent is off, the array this.errors (errs,
\* 0 for no errors field).  results0 and errors0 record what those arrays
\* held at this moment.  A callback that throws on the report lands in the
\* catch block of line 145, which calls it again with the error and
\* rethrows.
finishRun(W, r, cbThrows) ==
  LET run    == W.runs[r]
      report == [res  |-> Len(W.runs),
                 keys |-> filterResults(options),
                 errs |-> IF BagCardinality(W.errors) > 0 /\ ~options.silent
                          THEN Len(W.runs) ELSE 0]
  IN [W EXCEPT !.runs[r] =
        [run EXCEPT !.report   = report,
                    !.results0 = W.results,
                    !.errors0  = W.errors,
                    !.status   = IF run.callback /\ cbThrows
                                 THEN "rejected" ELSE "resolved",
                    !.cbThrew  = run.callback /\ cbThrows,
                    !.cbCalls  = IF ~run.callback THEN <<>>
                                 ELSE IF cbThrows THEN <<"report", "error">>
                                 ELSE <<"report">>]]

tasksOf(W, r) == {k \in 1..Len(W.tasks) : W.tasks[k].run = r}

\* line 106: Promise.all(rulePromises) is fulfilled once every _runRule of
\* the run has returned; the run then goes on to line 117
allSettled(W, r) == \A k \in tasksOf(W, r) : W.tasks[k].race # "pending"

afterRules(W, r, cbThrows) ==
  IF W.runs[r].status = "awaiting" /\ allSettled(W, r)
  THEN finishRun(W, r, cbThrows)
  ELSE W

RECURSIVE launchRulesReporting(_, _, _, _)
\* the loop of lines 97-102 with a record for an id no rule is registered under
launchRulesReporting(W, r, ids, context) ==
  IF ids = <<>> THEN W
  ELSE LET i == ruleIndex(rules, ids[1])
       IN launchRulesReporting(
            IF i = 0 THEN pushError(W, ErrorRec("rule_error", ids[1], "-", r))
            ELSE runRule(W, r, rules[i], context),
            r, Tail(ids), context)

RECURSIVE launchRules(_, _, _, _)
\* lines 97-102
launchRules(W, r, ids, context) ==
  IF ids = <<>> THEN W
  ELSE LET i == ruleIndex(rules, ids[1])
       IN launchRules(IF i = 0 THEN W ELSE runRule(W, r, rules[i], context),
                      r, Tail(ids), context)

\* A run() call that has returned and whose arrays this.results no longer
\* references: nothing can change what it returned.
Past ==
  [status |-> "past", resolvable |-> TRUE, root |-> Html,
   callback |-> FALSE, cbCalls |-> <<>>,
   cbThrew |-> FALSE, timedOut |-> FALSE,
   rulesToRun |-> <<>>, rules0 |-> <<>>, rulesets0 |-> <<>>,
   report |-> NoReport, results0 |-> EmptyResults, errors0 |-> EmptyBag]

\* whether task t can still act: its timer can still reject its race, or
\* the predicate call it waits for can still settle
live(t) ==
  \/ t.race = "pending"
  \/ t.exec = "awaiting" /\ Behaviour(t.rule.evaluate, t.elements[t.idx]).t = "macro"

\* lines 48-115 up to the await of line 106, and further when nothing is
\* left to wait for.  The returned runs and the tasks that cannot act any
\* more are forgotten here.
runCall(W, context, globalDocument, callback, cbThrows) ==
  LET r   == Len(W.runs) + 1
      ctx == resolveContext(context, globalDocument)
      ids == getRulesToRun(options, rules, rulesets)
      run == [status |-> IF ctx.ok THEN "awaiting" ELSE "rejected",
              resolvable |-> targetResolvable(context, globalDocument),
              root |-> ctx.root,
              callback |-> callback,
              cbCalls |-> IF ~ctx.ok /\ callback THEN <<"error">> ELSE <<>>,
              cbThrew |-> FALSE, timedOut |-> FALSE,
              rulesToRun |-> ids, rules0 |-> rules, rulesets0 |-> rulesets,
              report |-> NoReport, results0 |-> EmptyResults, errors0 |-> EmptyBag]
      old == [i \in 1..Len(W.runs) |->
                IF W.runs[i].status = "awaiting" THEN W.runs[i] ELSE Past]
      W0  == [results |-> EmptyResults,
              errors  |-> EmptyBag,
              runs    |-> Append(old, run),
              tasks   |-> SelectSeq(W.tasks, live)]
  IN IF ~ctx.ok THEN W0
     ELSE afterRules(launchRules(W0, r, ids, ctx.root), r, cbThrows)

\* the catch block of line 110 without the push of the timeout record
runCatchTimeoutUnlogged(W, r, cbThrows) ==
  finishRun([W EXCEPT !.runs[r].timedOut = TRUE], r, cbThrows)

\* lines 110-115: the global timer rejects the race of line 106 first
runCatchTimeout(W, r, cbThrows) ==
  LET W1 == pushError(W, ErrorRec("timeout", "-", "-", r))
  IN finishRun([W1 EXCEPT !.runs[r].timedOut = TRUE], r, cbThrows)

\* ----------------------------------------------- src/src/utils/color.js
\* A string is the sequence of its characters.
DigitChars == <<"0", "1", "2", "3", "4", "5", "6", "7", "8", "9">>

HexChars ==
  [c \in {"a", "b", "c", "d", "e", "f"} |->
     CASE c = "a" -> 10 [] c = "b" -> 11 [] c = "c" -> 12
       [] c = "d" -> 13 [] c = "e" -> 14 [] c = "f" -> 15]

isDigit(c) == c \in Range(DigitChars)

digitValue(c) == (CHOOSE i \in 1..10 : DigitChars[i] = c) - 1

lowerCase(c) ==
  CASE c = "A" -> "a" [] c = "B" -> "b" [] c = "C" -> "c"
    [] c = "D" -> "d" [] c = "E" -> "e" [] c = "F" -> "f" [] OTHER -> c

\* [0-9a-f] under the i flag
isHexDigit(c) == isDigit(c) \/ lowerCase(c) \in DOMAIN HexChars

hexValue(c) == IF isDigit(c) THEN digitValue(c) ELSE HexChars[lowerCase(c)]

\* numbers: an integer, a decimal numeral too long for one (known by its
\* count of digits), Infinity
Number(kind, v) == [kind |-> kind, v |-> v]
Small(n)    == Number("integer", n)
Big(digits) == Number("big", digits)
Infinity    == Number("Infinity", 0)

\* a channel of that many digits or more, 10^131 at least, takes the power
\* of line 73 beyond the largest double
OverflowDigits == 132

RECURSIVE decimal(_, _)
decimal(acc, ds) ==
  IF ds = <<>> THEN acc ELSE decimal(10 * acc + digitValue(ds[1]), Tail(ds))

RECURSIVE stripZeros(_)
stripZeros(ds) ==
  IF Len(ds) > 1 /\ ds[1] = "0" THEN stripZeros(Tail(ds)) ELSE ds

\* parseInt(numeral) of a match of \d+.  The inputs have numerals of up to
\* four digits and of OverflowDigits or more, nothing between.
parseInt(ds) ==
  LET n == stripZeros(ds) IN
  IF Len(n) <= 4 THEN Small(decimal(0, n)) ELSE Big(Len(n))

\* parseInt(pair, 16) of two hex digits
parseHex(hi, lo) == Small(16 * hexValue(hi) + hexValue(lo))

\* the end of the longest run of characters of set C that starts at i
\* (i - 1 for an empty run)
span(str, i, C) ==
  LET stops == {j \in i..Len(str) : str[j] \notin C}
  IN IF stops = {} THEN Len(str)
     ELSE (CHOOSE j \in stops : \A k \in stops : j <= k) - 1

hasAt(str, i, lit) ==
  /\ i + Len(lit) - 1 <= Len(str)
  /\ \A j \in 1..Len(lit) : str[i + j - 1] = lit[j]

\* /rgba?\((\d+),\s*(\d+),\s*(\d+)/ tried at position i: the three numerals,
\* or <<>> for no match.  The quantifiers are greedy and what follows each
\* cannot start inside its run, so the longest runs decide.
rgbMatchAt(str, i) ==
  LET open == IF hasAt(str, i, <<"r", "g", "b", "a", "(">>) THEN i + 5
              ELSE IF hasAt(str, i, <<"r", "g", "b", "(">>) THEN i + 4
              ELSE 0
      e1 == span(str, open, Range(DigitChars))
      s2 == span(str, e1 + 2, {" "}) + 1
      e2 == span(str, s2, Range(DigitChars))
      s3 == span(str, e2 + 2, {" "}) + 1
      e3 == span(str, s3, Range(DigitChars))
  IN IF /\ open # 0
        /\ e1 >= open /\ hasAt(str, e1 + 1, <<",">>)
        /\ e2 >= s2 /\ hasAt(str, e2 + 1, <<",">>)
        /\ e3 >= s3
     THEN << SubSeq(str, open, e1), SubSeq(str, s2, e2), SubSeq(str, s3, e3) >>
     ELSE <<>>

\* color.match(...): the match at the leftmost position that has one
rgbMatch(str) ==
  LET at == {i \in 1..Len(str) : rgbMatchAt(str, i) # <<>>}
  IN IF at = {} THEN <<>>
     ELSE rgbMatchAt(str, CHOOSE i \in at : \A j \in at : i <= j)

\* /^#([0-9a-f]{6}|[0-9a-f]{3})$/i: the six digits, a three-digit match
\* doubled as lines 48-50 do, or <<>> for no match
hexMatch(str) ==
  IF /\ Len(str) \in {4, 7} /\ str[1] = "#"
     /\ \A i \in 2..Len(str) : isHexDigit(str[i])
  THEN IF Len(str) = 4
       THEN <<str[2], str[2], str[3], str[3], str[4], str[4]>>
       ELSE Tail(str)
  ELSE <<>>

RGB(r, g, b) == [r |-> r, g |-> g, b |-> b]

\* what is passed for a colour that is no string (undefined, null)
NotAString == <<"undefined">>

\* lines 29-61
parseColor(color) ==
  IF color = NotAString \/ color = <<>> THEN RGB(Small(0), Small(0), Small(0))
  ELSE LET rgb == rgbMatch(color)
           hex == hexMatch(color)
       IN IF rgb # <<>>
          THEN RGB(parseInt(rgb[1]), parseInt(rgb[2]), parseInt(rgb[3]))
          ELSE IF hex # <<>>
          THEN RGB(parseHex(hex[1], hex[2]), parseHex(hex[3], hex[4]),
                   parseHex(hex[5], hex[6]))
          ELSE RGB(Small(0), Small(0), Small(0))

\* Math.pow((c / 255 + 0.055) / 1.055, 2.4) in units of 10^-5, for the
\* channel values above 10 that the inputs have
pow24 ==
  (11 :> 335) @@ (17 :> 561) @@ (128 :> 21586) @@ (255 :> 100000)
  @@ (300 :> 144948)

\* line 73 (74, 75): one channel made linear, in units of 10^-5; the test
\* c / 255 <= 0.03928 is c <= 10
linear(c) ==
  CASE c.kind = "integer" /\ c.v * 100000 <= 3928 * 255 ->
         Small((c.v * 10000000) \div (255 * 1292))
    [] c.kind = "integer" /\ c.v \in DOMAIN pow24 -> Small(pow24[c.v])
    [] c.kind = "big" /\ c.v >= OverflowDigits -> Infinity

\* lines 68-78, in units of 10^-9; a sum with an infinite term is Infinity
relativeLuminance(rgb) ==
  LET r == linear(rgb.r)
      g == linear(rgb.g)
      b == linear(rgb.b)
  IN IF Infinity \in {r, g, b} THEN Infinity
     ELSE Small(2126 * r.v + 7152 * g.v + 722 * b.v)

\* Math.max and Math.min of two luminances
max(l1, l2) ==
  IF Infinity \in {l1, l2} THEN Infinity ELSE IF l1.v >= l2.v THEN l1 ELSE l2

min(l1, l2) ==
  CASE l1 = Infinity -> l2
    [] l2 = Infinity -> l1
    [] OTHER         -> IF l1.v <= l2.v THEN l1 ELSE l2

\* x + 0.05
plus005(x) == IF x = Infinity THEN Infinity ELSE Small(x.v + 50000000)

\* the result of a division: the quotient of two finite numbers is kept as
\* the pair, Infinity over a finite number is Infinity, Infinity over
\* Infinity is NaN
Quotient(kind, num, den) == [kind |-> kind, num |-> num, den |-> den]

divide(x, y) ==
  CASE x = Infinity /\ y = Infinity -> Quotient("NaN", 0, 0)
    [] x = Infinity                  -> Quotient("Infinity", 0, 0)
    [] OTHER                         -> Quotient("ratio", x.v, y.v)

\* lines 11-22
calculateContrast(fgColor, bgColor) ==
  LET rgb1    == parseColor(fgColor)
      rgb2    == parseColor(bgColor)
      l1      == relativeLuminance(rgb1)
      l2      == relativeLuminance(rgb2)
      lighter == max(l1, l2)
      darker  == min(l1, l2)
  IN divide(plus005(lighter), plus005(darker))

\* the numeral of n digits 9
Nines(n) == [i \in 1..n |-> "9"]

rgbString(prefix, r, g, b) ==
  prefix \o <<"(">> \o r \o <<",", " ">> \o g \o <<",", " ">> \o b \o <<")">>

\* The colours contrasts are asked for: six- and three-digit hex in both
\* cases, rgb() and rgba() in and out of the range 0..255, an rgb() channel
\* of 200 digits, a colour name, the empty string and no string.
Colors ==
  { <<"#", "0", "0", "0", "0", "0", "0">>,
    <<"#", "f", "f", "f", "f", "f", "f">>,
    <<"#", "F", "F", "F">>,
    <<"#", "f", "0", "1">>,
    <<"#", "8", "0", "8", "0", "8", "0">>,
    rgbString(<<"r", "g", "b">>, <<"1", "2", "8">>, <<"1", "2", "8">>, <<"1", "2", "8">>),
    rgbString(<<"r", "g", "b", "a">>, <<"0">>, <<"2", "5", "5">>, <<"0", "1", "0">>)
      \o <<",", " ", "0", ".", "5", ")">>,
    rgbString(<<"r", "g", "b">>, <<"3", "0", "0">>, <<"0">>, <<"0">>),
    rgbString(<<"r", "g", "b">>, Nines(200), <<"0">>, <<"0">>),
    <<"r", "e", "d">>,
    <<>>,
    NotAString }

\* ------------------------------------------------------------ _getSelector
\* An element is the sequence of child positions that leads to it from the
\* document (<<1>> is the root element, <<>> stands for no element).  A
\* document gives the elements it holds and the tag and id of each ("" for
\* no id).
Document(nodes, tag, id) == [nodes |-> nodes, tag |-> tag, id |-> id]

NoDom == Document({}, [n \in {} |-> ""], [n \in {} |-> ""])

\* current.parentElement
parentElement(current) ==
  IF Len(current) <= 1 THEN <<>> ELSE SubSeq(current, 1, Len(current) - 1)

\* lines 358-366: one more than the number of previous siblings with the
\* element's nodeName
nthOfType(d, current) ==
  1 + Cardinality({s \in d.nodes :
                     /\ Len(s) = Len(current)
                     /\ parentElement(s) = parentElement(current)
                     /\ s[Len(s)] < current[Len(current)]
                     /\ d.tag[s] = d.tag[current]})

\* line 348
maxDepth == 10

RECURSIVE walkAncestors(_, _, _, _)
\* lines 350-376: the loop, with the path as the list of its segments, a
\* segment as the list of the pieces of its text
walkAncestors(d, current, depth, path) ==
  IF current = <<>> \/ depth >= maxDepth THEN path
  ELSE IF d.id[current] # "" THEN << <<"#", d.id[current]>> >> \o path
  ELSE LET nth      == nthOfType(d, current)
           selector == IF nth > 1
                       THEN <<d.tag[current], ":nth-of-type(", ToString(nth), ")">>
                       ELSE <<d.tag[current]>>
       IN walkAncestors(d, parentElement(current), depth + 1, <<selector>> \o path)

RECURSIVE join(_, _)
\* path.join(separator): the pieces of the text returned, in order
join(path, separator) ==
  IF path = <<>> THEN <<>>
  ELSE IF Len(path) = 1 THEN path[1]
  ELSE path[1] \o <<separator>> \o join(Tail(path), separator)

\* lines 339-379
getSelector(d, element) == join(walkAncestors(d, element, 0, <<>>), " > ")

\* the longest chain of nested elements in the documents below
MaxChain == 11

\* the elements prefix, its first child, that child's first child, ...: n
\* elements
Chain(prefix, n) == {prefix \o [i \in 1..j |-> 1] : j \in 0..(n - 1)}

\* html > body > ( A , B ), where A and B are chains of n nested elements;
\* every element is a div but the head of B, whose tag is tagB; the element
\* idAt levels down chain A has the only id of the document (none for 0)
NestedDocument(n, tagB, idAt) ==
  LET A     == Chain(<<1, 1, 1>>, n)
      B     == Chain(<<1, 1, 2>>, n)
      nodes == {<<1>>, <<1, 1>>} \cup A \cup B
  IN Document(nodes,
       [e \in nodes |-> CASE e = <<1>>       -> "html"
                          [] e = <<1, 1>>    -> "body"
                          [] e = <<1, 1, 2>> -> tagB
                          [] OTHER           -> "div"],
       [e \in nodes |-> IF idAt > 0 /\ e \in A /\ Len(e) = 2 + idAt
                        THEN "main" ELSE ""])

Documents ==
  {NestedDocument(n, tagB, idAt) :
     n \in 1..MaxChain, tagB \in {"div", "section"}, idAt \in 0..2}

\* ------------------------------------------------- the API's testUrl
\* src/src/api/server.js.  A timer: what set it, for a rule timer the task,
\* its delay in ms, and whether it has fired or was cleared.
Timer(kind, task, delay) ==
  [kind |-> kind, task |-> task, delay |-> delay, fired |-> FALSE]

\* No testUrl call yet.  kind and violations are the value the call
\* returned, found what this.results.violations held at that moment, cause
\* the timeout the scan had hit by then.
NoScan ==
  [phase |-> "idle", timers |-> <<>>, kind |-> "none",
   violations |-> EmptyBag, found |-> EmptyBag, cause |-> "none"]

\* The timers phase of the event loop: of two timers the one set earlier with
\* a delay no longer than the other's expires first, and its callback and
\* the microtasks it queues run before the other's callback.
mayFireAnyOrder(timers, i) == ~timers[i].fired

mayFire(timers, i) ==
  /\ ~timers[i].fired
  /\ \A j \in 1..(i - 1) : timers[j].delay <= timers[i].delay => timers[j].fired

\* The API process before any request: no testUrl call, and the globals
\* window, document and getComputedStyle undefined.  A global holds the number
\* of the call whose DOM it refers to, 0 when it is not defined.
NoApi == [calls |-> <<>>, window |-> 0, document |-> 0, getComputedStyle |-> 0]

\* ---------------------------------------------------------- construction
Opt(runOnly, resultTypes, maxElements, silent) ==
  [runOnly |-> runOnly, resultTypes |-> resultTypes,
   maxElements |-> maxElements, silent |-> silent]

Unset      == [set |-> FALSE, names |-> <<>>]
Only(ns)   == [set |-> TRUE, names |-> ns]
AllTypes   == [set |-> FALSE, types |-> <<>>]
Types(ts)  == [set |-> TRUE, types |-> ts]

\* The options argument of the constructor: each key is absent, given as
\* undefined, or given a value.
Arg(given, value) == [given |-> given, value |-> value]
Absent        == Arg("absent", <<>>)
Undefined     == Arg("undefined", <<>>)
Given(value)  == Arg("value", value)

\* lines 8-9: the defaults ['wcag22a', 'wcag22aa'] (two rulesets the factory
\* registers) and ['violations']
DefaultRunOnly     == <<"A", "B">>
DefaultResultTypes == <<"violations">>

\* the constructor without the spread of line 14: a key given as undefined
\* gets the default like an absent one
constructNoSpread(o) ==
  Opt(IF o.runOnly.given = "value" THEN Only(o.runOnly.value)
      ELSE Only(DefaultRunOnly),
      IF o.resultTypes.given = "value" THEN Types(o.resultTypes.value)
      ELSE Types(DefaultResultTypes),
      IF o.maxElements.given = "value" THEN o.maxElements.value
      ELSE DefaultMaxElements,
      IF o.silent.given = "value" THEN o.silent.value ELSE FALSE)

\* lines 7-15: the defaults, then the spread of the argument: a key the
\* argument holds overrides the default, also when its value is undefined.
\* (maxElements and silent are absent or given a value here.)
construct(o) ==
  Opt(CASE o.runOnly.given = "absent"    -> Only(DefaultRunOnly)
        [] o.runOnly.given = "undefined" -> Unset
        [] OTHER                         -> Only(o.runOnly.value),
      CASE o.resultTypes.given = "absent"    -> Types(DefaultResultTypes)
        [] o.resultTypes.given = "undefined" -> AllTypes
        [] OTHER                             -> Types(o.resultTypes.value),
      IF o.maxElements.given = "value" THEN o.maxElements.value
      ELSE DefaultMaxElements,
      IF o.silent.given = "value" THEN o.silent.value ELSE FALSE)

CallerOptions(runOnly, resultTypes, maxElements, silent) ==
  [runOnly |-> runOnly, resultTypes |-> resultTypes,
   maxElements |-> maxElements, silent |-> silent]

\* The arguments engines are constructed with: none; rulesets to run of
\* which "Z" is never registered; runOnly and resultTypes given as undefined,
\* a cap below the number of images and silent on; and one ruleset (a
\* runOnly given as one string is the one-element list, line 160) with result
\* types of which "warnings" is no bucket, and the same cap.
ConstructorArguments ==
  { CallerOptions(Absent, Absent, Absent, Absent),
    CallerOptions(Given(<<"A", "Z", "B">>), Given(<<"violations">>), Absent, Absent),
    CallerOptions(Undefined, Undefined, Given(NumImgs - 1), Given(TRUE)),
    CallerOptions(Given(<<"A">>),
                  Given(<<"passes", "incomplete", "warnings", "inapplicable">>),
                  Given(NumImgs - 1), Absent) }

OptionSets == {construct(o) : o \in ConstructorArguments}

\* the engine as src/unnamed/part_004 (createAccessibilityEngine) returns it
Init ==
  /\ options \in OptionSets
  /\ rules = FactoryRules
  /\ rulesets = FactoryRulesets
  /\ results = EmptyResults
  /\ errors = EmptyBag
  /\ runs = <<>>
  /\ tasks = <<>>
  /\ regs = 0
  /\ threw = FALSE
  /\ contrasts = {}
  /\ dom = NoDom
  /\ targets = {}
  /\ located = {}
  /\ scan = NoScan
  /\ api = NoApi

\* ---------------------------------------------------------------- actions
commit(W) ==
  /\ results' = W.results
  /\ errors' = W.errors
  /\ runs' = W.runs
  /\ tasks' = W.tasks

noRunAwaiting == \A r \in 1..Len(runs) : runs[r].status # "awaiting"

\* The host registers between runs: run() reads the registry in its first
\* macrotask only, so a registration made while a run waits acts like one
\* made right after it.
registerRule(rule) ==
  /\ noRunAwaiting
  /\ Len(runs) < MaxRuns
  /\ regs < MaxRegs
  /\ regs' = regs + 1
  /\ threw' = invalidRule(rule)
  /\ rules' = registerRuleEffect(rules, rule)
  /\ UNCHANGED <<utilVars, options, rulesets, results, errors, runs, tasks>>

registerRuleset(name, ruleIds) ==
  /\ noRunAwaiting
  /\ Len(runs) < MaxRuns
  /\ regs < MaxRegs
  /\ regs' = regs + 1
  /\ rulesets' = (name :> ruleIds) @@ rulesets
  /\ threw' = FALSE
  /\ UNCHANGED <<utilVars, options, rules, results, errors, runs, tasks>>

\* run(context, callback), called while no earlier run is awaiting
run(context, globalDocument, callback, cbThrows) ==
  /\ Len(runs) < MaxRuns
  /\ noRunAwaiting
  /\ commit(runCall(World, context, globalDocument, callback, cbThrows))
  /\ threw' = FALSE
  /\ UNCHANGED <<utilVars, options, rules, rulesets, regs>>

\* The timers of line 185 all wait 5000 ms, so they expire in the order
\* they were set: the one that fires is that of the first task whose race is
\* still open (a timer whose race is over changes nothing).
ruleTimerFires(k, cbThrows) ==
  /\ k \in 1..Len(tasks)
  /\ tasks[k].race = "pending"
  /\ \A j \in 1..(k - 1) : tasks[j].race # "pending"
  /\ commit(afterRules(runRuleCatch(World, k), tasks[k].run, cbThrows))
  /\ UNCHANGED <<utilVars, options, rules, rulesets, regs, threw>>

\* The timer of line 91 expires while the run still waits at line 106.
globalTimerFires(r, cbThrows) ==
  /\ r \in 1..Len(runs)
  /\ runs[r].status = "awaiting"
  /\ commit(runCatchTimeout(World, r, cbThrows))
  /\ UNCHANGED <<utilVars, options, rules, rulesets, regs, threw>>

\* The promise a predicate returned settles in a macrotask of its own.
evaluateSettles(k, cbThrows) ==
  /\ k \in 1..Len(tasks)
  /\ tasks[k].exec = "awaiting"
  /\ LET t == tasks[k]
         b == Behaviour(t.rule.evaluate, t.elements[t.idx])
     IN /\ b.t = "macro"
        /\ commit(afterRules(evaluateLoop(settleElement(World, k, b.o), k),
                             t.run, cbThrows))
  /\ UNCHANGED <<utilVars, options, rules, rulesets, regs, threw>>

\* whether the callback of run r, if any, throws when handed the report
cbChoices(r) == IF r \in 1..Len(runs) /\ runs[r].callback THEN BOOLEAN ELSE {FALSE}

Next ==
  \/ \E rule \in RuleObjects : registerRule(rule)
  \/ \E name \in RulesetNames, ruleIds \in IdLists : registerRuleset(name, ruleIds)
  \/ \E context \in Contexts, callback \in BOOLEAN :
       \E globalDocument \in (IF context = "undefined" THEN BOOLEAN ELSE {TRUE}),
          cbThrows \in (IF callback THEN BOOLEAN ELSE {FALSE}) :
         run(context, globalDocument, callback, cbThrows)
  \/ \E k \in 1..Len(tasks) : \E cbThrows \in cbChoices(tasks[k].run) :
       ruleTimerFires(k, cbThrows)
  \/ \E r \in 1..Len(runs) : \E cbThrows \in cbChoices(r) :
       globalTimerFires(r, cbThrows)
  \/ \E k \in 1..Len(tasks) : \E cbThrows \in cbChoices(tasks[k].run) :
       evaluateSettles(k, cbThrows)

Spec == Init /\ [][Next]_vars

\* ------------------------------------------- calculateContrast on its own
MaxCalls == 2

ContrastInit ==
  /\ options = construct(CallerOptions(Absent, Absent, Absent, Absent))
  /\ rules = FactoryRules
  /\ rulesets = FactoryRulesets
  /\ results = EmptyResults
  /\ errors = EmptyBag
  /\ runs = <<>>
  /\ tasks = <<>>
  /\ regs = 0
  /\ threw = FALSE
  /\ contrasts = {}
  /\ dom = NoDom
  /\ targets = {}
  /\ located = {}
  /\ scan = NoScan
  /\ api = NoApi

\* calculateContrast(fgColor, bgColor) is called and returns
contrastCall(fgColor, bgColor) ==
  /\ Cardinality(contrasts) < MaxCalls
  /\ contrasts' = contrasts \cup
       {[fgColor |-> fgColor, bgColor |-> bgColor,
         contrast |-> calculateContrast(fgColor, bgColor)]}
  /\ UNCHANGED <<engineVars, dom, targets, located, scan, api>>

ContrastNext == \E fgColor \in Colors, bgColor \in Colors : contrastCall(fgColor, bgColor)

ContrastSpec == ContrastInit /\ [][ContrastNext]_vars

\* --------------------------------------------------- _getSelector on its own
MaxTargets == 2

SelectorInit ==
  /\ options = construct(CallerOptions(Absent, Absent, Absent, Absent))
  /\ rules = FactoryRules
  /\ rulesets = FactoryRulesets
  /\ results = EmptyResults
  /\ errors = EmptyBag
  /\ runs = <<>>
  /\ tasks = <<>>
  /\ regs = 0
  /\ threw = FALSE
  /\ contrasts = {}
  /\ dom \in Documents
  /\ targets = {}
  /\ located = {}
  /\ scan = NoScan
  /\ api = NoApi

\* this._getSelector(element) is called and returns
getSelectorCall(element) ==
  /\ Cardinality(targets) < MaxTargets
  /\ targets' = targets \cup
       {[element |-> element, target |-> getSelector(dom, element)]}
  /\ UNCHANGED <<engineVars, contrasts, dom, located, scan, api>>

SelectorNext == \E element \in dom.nodes : getSelectorCall(element)

SelectorSpec == SelectorInit /\ [][SelectorNext]_vars

\* --------------------------------------------------- _getElements on its own
MaxLocates == 2

\* the selectors asked for: none, the two document-level ones, the
\* wildcard, three tag names and one the DOM cannot parse
Selectors == {"", "html", "body", "*", "img", "p", "video", "a["}

\* the context roots run() passes on: the document's root element, or the
\* element it was called with
ContextRoots == {Html, Div}

LocateInit ==
  /\ options = construct(CallerOptions(Absent, Absent, Absent, Absent))
  /\ rules = FactoryRules
  /\ rulesets = FactoryRulesets
  /\ results = EmptyResults
  /\ errors = EmptyBag
  /\ runs = <<>>
  /\ tasks = <<>>
  /\ regs = 0
  /\ threw = FALSE
  /\ contrasts = {}
  /\ dom = NoDom
  /\ targets = {}
  /\ located = {}
  /\ scan = NoScan
  /\ api = NoApi

\* this._getElements(selector, context, doc) is called and returns
getElementsCall(selector, context) ==
  /\ Cardinality(located) < MaxLocates
  /\ located' = located \cup
       {[selector |-> selector, context |-> context,
         elements |-> getElements(selector, context).els,
         logged |-> getElements(selector, context).failed]}
  /\ UNCHANGED <<engineVars, contrasts, dom, targets, scan, api>>

LocateNext ==
  \E selector \in Selectors, context \in ContextRoots : getElementsCall(selector, context)

LocateSpec == LocateInit /\ [][LocateNext]_vars

\* --------------------------------------------------- testUrl of the API
\* lines 94-100: the options testUrl constructs its engine with.  A runOnly
\* string is one ruleset (part_003 line 160): 'wcag22a' is A, 'wcag22aa' is B,
\* and options.rules, when given, lists both; the caps 50 and 1000 are one
\* below the number of images and none.
testUrlOptions(quickScan, rulesGiven, silent) ==
  construct(CallerOptions(
    Given(IF rulesGiven THEN <<"A", "B">> ELSE IF quickScan THEN <<"A">> ELSE <<"B">>),
    Given(<<"violations">>),
    Given(IF quickScan THEN NumImgs - 1 ELSE NumImgs),
    Given(silent)))

\* options holds what line 94 will construct the engine with
TestUrlInit ==
  /\ options \in {testUrlOptions(quickScan, rulesGiven, silent) :
                    quickScan \in BOOLEAN, rulesGiven \in BOOLEAN, silent \in BOOLEAN}
  /\ rules = FactoryRules
  /\ rulesets = FactoryRulesets
  /\ results = EmptyResults
  /\ errors = EmptyBag
  /\ runs = <<>>
  /\ tasks = <<>>
  /\ regs = 0
  /\ threw = FALSE
  /\ contrasts = {}
  /\ dom = NoDom
  /\ targets = {}
  /\ located = {}
  /\ scan = NoScan
  /\ api = NoApi

scanFrame ==
  UNCHANGED <<options, rules, rulesets, regs, threw, contrasts, dom, targets,
              located, api>>

\* which timeout the engine's run has hit
engineCause(W) ==
  IF W.runs[1].timedOut THEN "global"
  ELSE IF \E k \in 1..Len(W.tasks) : W.tasks[k].race = "lost" THEN "rule"
  ELSE "none"

\* lines 104-112 and 125-137: once engine.run(document) settles, the race of
\* line 104 settles with it in the same macrotask: testUrl returns the report,
\* whose violations key holds the array this.results.violations, or rethrows
\* (no error of run() has 'timeout' in its message)
settle(s, W) ==
  IF s.phase # "running" THEN s
  ELSE CASE W.runs[1].status = "resolved" ->
              [s EXCEPT !.phase = "returned", !.kind = "report",
                        !.violations = IF "violations" \in W.runs[1].report.keys
                                       THEN W.results.violations ELSE EmptyBag,
                        !.found = W.results.violations,
                        !.cause = engineCause(W)]
         [] W.runs[1].status = "rejected" -> [s EXCEPT !.phase = "threw"]
         [] OTHER -> s

\* lines 128-135: the catch block's four empty arrays
returnEmpty(s, W, cause) ==
  [s EXCEPT !.phase = "returned", !.kind = "empty", !.violations = EmptyBag,
            !.found = W.results.violations, !.cause = cause]

\* lines 84-109 up to the await of line 104: engine.run(document) runs to
\* its first await, setting the engine's timer (part_003 line 91) and then
\* one timer per rule (line 185); then testUrl sets its own
startScan(s) ==
  LET W1 == runCall(World, "document", TRUE, FALSE, FALSE)
      s1 == [s EXCEPT
               !.phase = "running",
               !.timers = @ \o <<Timer("engine", 0, 10000)>>
                            \o [k \in 1..Len(W1.tasks) |-> Timer("rule", k, 5000)]
                            \o <<Timer("outer", 0, 10000)>>]
  IN /\ commit(W1)
     /\ scan' = settle(s1, W1)

\* lines 10-19: testUrl(url, options) is called and waits for the fetch
testUrl ==
  /\ scan.phase = "idle"
  /\ scan' = [scan EXCEPT !.phase = "fetching",
                          !.timers = <<Timer("fetch", 0, 30000)>>]
  /\ commit(World)
  /\ scanFrame

\* lines 19-82: the fetch fails, or the page arrives, the fetch timer is
\* cleared, the DOM is built and the wait for it starts, which is over at once
\* unless the document is still loading
fetchSettles(outcome) ==
  /\ scan.phase = "fetching"
  /\ LET s1 == [scan EXCEPT !.timers = <<[@[1] EXCEPT !.fired = TRUE],
                                          Timer("dom", 0, 5000)>>]
     IN CASE outcome = "failed"  -> scan' = [scan EXCEPT !.phase = "threw"] /\ commit(World)
          [] outcome = "loading" -> scan' = [s1 EXCEPT !.phase = "domwait"] /\ commit(World)
          [] OTHER               -> startScan(s1)
  /\ scanFrame

\* line 74: DOMContentLoaded arrives while testUrl waits for it
domContentLoaded ==
  /\ scan.phase = "domwait"
  /\ startScan(scan)
  /\ scanFrame

\* line 16: the fetch timer aborts the fetch, whose error testUrl rethrows
fetchTimerFires(i) ==
  /\ i \in 1..Len(scan.timers)
  /\ scan.timers[i].kind = "fetch"
  /\ mayFire(scan.timers, i)
  /\ scan' = [scan EXCEPT !.timers[i].fired = TRUE,
                          !.phase = IF @ = "fetching" THEN "threw" ELSE @]
  /\ commit(World)
  /\ scanFrame

\* line 80: 'DOM ready timeout' rejects the race of line 71 if it is open, and
\* the catch block of line 125 returns
domTimerFires(i) ==
  /\ i \in 1..Len(scan.timers)
  /\ scan.timers[i].kind = "dom"
  /\ mayFire(scan.timers, i)
  /\ LET s1 == [scan EXCEPT !.timers[i].fired = TRUE]
     IN scan' = IF scan.phase = "domwait" THEN returnEmpty(s1, World, "dom") ELSE s1
  /\ commit(World)
  /\ scanFrame

\* part_003 line 91: the engine's timer, with run()'s catch block if the race
\* of line 106 is open
engineTimerFires(i) ==
  /\ i \in 1..Len(scan.timers)
  /\ scan.timers[i].kind = "engine"
  /\ mayFire(scan.timers, i)
  /\ LET s1 == [scan EXCEPT !.timers[i].fired = TRUE]
         W1 == IF runs[1].status = "awaiting"
               THEN runCatchTimeout(World, 1, FALSE) ELSE World
     IN commit(W1) /\ scan' = settle(s1, W1)
  /\ scanFrame

\* part_003 line 185: a rule's timer, with _runRule's catch block if the
\* rule's race is open
ruleTimerExpires(i) ==
  /\ i \in 1..Len(scan.timers)
  /\ scan.timers[i].kind = "rule"
  /\ mayFire(scan.timers, i)
  /\ LET s1 == [scan EXCEPT !.timers[i].fired = TRUE]
         k  == scan.timers[i].task
         W1 == IF tasks[k].race = "pending"
               THEN afterRules(runRuleCatch(World, k), 1, FALSE) ELSE World
     IN commit(W1) /\ scan' = settle(s1, W1)
  /\ scanFrame

\* line 107: testUrl's own timer rejects the race of line 104 if it is open,
\* and the catch block of line 125 returns
outerTimerFires(i) ==
  /\ i \in 1..Len(scan.timers)
  /\ scan.timers[i].kind = "outer"
  /\ mayFire(scan.timers, i)
  /\ LET s1 == [scan EXCEPT !.timers[i].fired = TRUE]
     IN scan' = IF scan.phase = "running" THEN returnEmpty(s1, World, "outer") ELSE s1
  /\ commit(World)
  /\ scanFrame

\* the promise a predicate returned settles, whether testUrl still waits or not
predicateSettles(k) ==
  /\ scan.phase \in {"running", "returned"}
  /\ k \in 1..Len(tasks)
  /\ tasks[k].exec = "awaiting"
  /\ LET b  == Behaviour(tasks[k].rule.evaluate, tasks[k].elements[tasks[k].idx])
         W1 == afterRules(evaluateLoop(settleElement(World, k, b.o), k), 1, FALSE)
     IN /\ b.t = "macro"
        /\ commit(W1)
        /\ scan' = settle(scan, W1)
  /\ scanFrame

TestUrlNext ==
  \/ testUrl
  \/ \E outcome \in {"failed", "loading", "ready"} : fetchSettles(outcome)
  \/ domContentLoaded
  \/ \E i \in 1..Len(scan.timers) : fetchTimerFires(i)
  \/ \E i \in 1..Len(scan.timers) : domTimerFires(i)
  \/ \E i \in 1..Len(scan.timers) : engineTimerFires(i)
  \/ \E i \in 1..Len(scan.timers) : ruleTimerExpires(i)
  \/ \E i \in 1..Len(scan.timers) : outerTimerFires(i)
  \/ \E k \in 1..Len(tasks) : predicateSettles(k)

TestUrlSpec == TestUrlInit /\ [][TestUrlNext]_vars

\* ------------------------------------------------------ overlapping runs
\* run(context, callback), called whether or not an earlier call still waits
\* at line 106: lines 51-57 replace this.results and this.errors either way
runOverlapping(context, globalDocument, callback, cbThrows) ==
  /\ Len(runs) < MaxRuns
  /\ commit(runCall(World, context, globalDocument, callback, cbThrows))
  /\ threw' = FALSE
  /\ UNCHANGED <<utilVars, options, rules, rulesets, regs>>

\* the host calls run() at any time and registers nothing
OverlapNext ==
  \/ \E context \in Contexts, callback \in BOOLEAN :
       \E globalDocument \in (IF context = "undefined" THEN BOOLEAN ELSE {TRUE}),
          cbThrows \in (IF callback THEN BOOLEAN ELSE {FALSE}) :
         runOverlapping(context, globalDocument, callback, cbThrows)
  \/ \E k \in 1..Len(tasks) : \E cbThrows \in cbChoices(tasks[k].run) :
       ruleTimerFires(k, cbThrows)
  \/ \E r \in 1..Len(runs) : \E cbThrows \in cbChoices(r) :
       globalTimerFires(r, cbThrows)
  \/ \E k \in 1..Len(tasks) : \E cbThrows \in cbChoices(tasks[k].run) :
       evaluateSettles(k, cbThrows)

OverlapSpec == Init /\ [][OverlapNext]_vars

\* ------------------------------------------- concurrent scans of the API
MaxScans == 3

ApiInit ==
  /\ options = construct(CallerOptions(Absent, Absent, Absent, Absent))
  /\ rules = FactoryRules
  /\ rulesets = FactoryRulesets
  /\ results = EmptyResults
  /\ errors = EmptyBag
  /\ runs = <<>>
  /\ tasks = <<>>
  /\ regs = 0
  /\ threw = FALSE
  /\ contrasts = {}
  /\ dom = NoDom
  /\ targets = {}
  /\ located = {}
  /\ scan = NoScan
  /\ api = NoApi

apiFrame == UNCHANGED <<engineVars, contrasts, dom, targets, located, scan>>

\* server.js lines 61-66: the globals now refer to the DOM of call i
setGlobals(a, i) ==
  [a EXCEPT !.window = i, !.document = i, !.getComputedStyle = i]

\* lines 113-124: the finally block deletes the globals, whichever call set them
deleteGlobals(a) ==
  [a EXCEPT !.window = 0, !.document = 0, !.getComputedStyle = 0]

\* lines 84-124 from the end of the wait for the DOM: engine.run(document) is
\* called; it settles in the same macrotask when no predicate waits, and
\* testUrl then leaves through the finally block; otherwise testUrl waits
callRun(a, i, waits) ==
  IF waits THEN [a EXCEPT !.calls[i] = "running"]
  ELSE deleteGlobals([a EXCEPT !.calls[i] = "done"])

\* a request handler calls testUrl (lines 249 and 319), which waits for the
\* fetch
scanRequest ==
  /\ Len(api.calls) < MaxScans
  /\ api' = [api EXCEPT !.calls = Append(@, "fetching")]
  /\ apiFrame

\* lines 19-82 of call i: the fetch fails and testUrl rethrows, or the page
\* arrives, the DOM is built, the globals are set, and the wait for the DOM
\* starts, which is over at once unless the document is still loading
pageArrives(i, outcome, waits) ==
  /\ i \in 1..Len(api.calls)
  /\ api.calls[i] = "fetching"
  /\ api' = CASE outcome = "failed"  -> [api EXCEPT !.calls[i] = "failed"]
              [] outcome = "loading" -> [setGlobals(api, i) EXCEPT !.calls[i] = "domwait"]
              [] OTHER               -> callRun(setGlobals(api, i), i, waits)
  /\ apiFrame

\* line 74 of call i: DOMContentLoaded arrives
domReady(i, waits) ==
  /\ i \in 1..Len(api.calls)
  /\ api.calls[i] = "domwait"
  /\ api' = callRun(api, i, waits)
  /\ apiFrame

\* line 80 of call i: 'DOM ready timeout'; testUrl leaves through the finally
\* block and the catch block
domReadyTimeout(i) ==
  /\ i \in 1..Len(api.calls)
  /\ api.calls[i] = "domwait"
  /\ api' = deleteGlobals([api EXCEPT !.calls[i] = "done"])
  /\ apiFrame

\* lines 104-124 of call i: the race of line 104 settles and testUrl leaves
\* through the finally block
raceSettles(i) ==
  /\ i \in 1..Len(api.calls)
  /\ api.calls[i] = "running"
  /\ api' = deleteGlobals([api EXCEPT !.calls[i] = "done"])
  /\ apiFrame

ApiNext ==
  \/ scanRequest
  \/ \E i \in 1..Len(api.calls) :
       \E outcome \in {"failed", "loading", "ready"}, waits \in BOOLEAN :
         pageArrives(i, outcome, waits)
  \/ \E i \in 1..Len(api.calls) : \E waits \in BOOLEAN : domReady(i, waits)
  \/ \E i \in 1..Len(api.calls) : domReadyTimeout(i)
  \/ \E i \in 1..Len(api.calls) : raceSettles(i)

ApiSpec == ApiInit /\ [][ApiNext]_vars

\* The event loop runs a timer's callback once its delay has passed: the
\* timers of lines 91 and 185 fire as long as a race waits for them.
FairSpec ==
  /\ Spec
  /\ WF_vars(\E k \in 1..Len(tasks) : \E cbThrows \in cbChoices(tasks[k].run) :
               ruleTimerFires(k, cbThrows))
  /\ WF_vars(\E r \in 1..Len(runs) : \E cbThrows \in cbChoices(r) :
               globalTimerFires(r, cbThrows))

\* ------------------------------------------------------------ properties
RECURSIVE SumCopies(_, _)
SumCopies(S, B) ==
  IF S = {} THEN 0
  ELSE LET e == CHOOSE x \in S : TRUE
       IN CopiesIn(e, B) + SumCopies(S \ {e}, B)

\* the number of elements of bag B that satisfy P
BagCount(B, P(_)) == SumCopies({e \in BagToSet(B) : P(e)}, B)

\* the number of entries for rule id in the buckets bs of res
IdCount(res, bs, id) ==
  LET n(b) == BagCount(res[b], LAMBDA e : e.id = id)
  IN (IF "violations" \in bs THEN n("violations") ELSE 0)
     + (IF "passes" \in bs THEN n("passes") ELSE 0)
     + (IF "incomplete" \in bs THEN n("incomplete") ELSE 0)
     + (IF "inapplicable" \in bs THEN n("inapplicable") ELSE 0)

Returned(r) == runs[r].status = "resolved"

\* a step of the engine other than a run() call (a call forgets the tasks
\* that cannot act, so task positions are comparable only outside it)
SameRuns == Len(runs') = Len(runs)

\* C1: in every report returned by run(), a rule that has an entry with at
\* least one NodeResult has exactly one entry in violations, passes and
\* incomplete together, and none in inapplicable.
C1_ExactlyOneBucket ==
  \A r \in 1..Len(runs) : Returned(r) =>
    \A id \in RuleIds :
      (\E b \in Buckets : \E e \in BagToSet(runs[r].results0[b]) :
          e.id = id /\ e.nodes # <<>>)
      => /\ IdCount(runs[r].results0, {"violations", "passes", "incomplete"}, id) = 1
         /\ IdCount(runs[r].results0, {"inapplicable"}, id) = 0

RuleTimeoutWrites(type) ==
  \A k \in 1..Len(tasks) :
    (SameRuns /\ tasks[k].race = "pending" /\ tasks'[k].race = "lost") =>
      LET t == tasks[k] IN
      /\ errors' = errors (+) SetToBag({ErrorRec(type, t.rule.id, "-", t.run)})
      /\ results'.incomplete =
           results.incomplete (+) SetToBag({Entry(t.rule, <<>>, t.run)})
      /\ \A b \in Buckets \ {"incomplete"} : results'[b] = results[b]
      /\ \A j \in 1..Len(tasks) : j # k => tasks'[j] = tasks[j]

\* C3 as stated: when a rule's evaluation exceeds 5 seconds the rule is put
\* in incomplete with an empty nodes list, a timeout error record for it is
\* added, and the other rules of the run are left as they are.
C3_RuleTimeoutRecord ==
  [][RuleTimeoutWrites("timeout")]_vars

\* C3 amended: as above, but the record added for the rule has type
\* rule_error (line 193).
C3_RuleTimeoutRuleError ==
  [][RuleTimeoutWrites("rule_error")]_vars

\* a rule whose timer rejected it, filed in incomplete without nodes and
\* logged, while another rule of the same run is still open
C3_Witness ==
  \E k \in 1..Len(tasks) : \E j \in 1..Len(tasks) :
    /\ tasks[k].race = "lost" /\ tasks[k].run = Len(runs)
    /\ BagIn(Entry(tasks[k].rule, <<>>, tasks[k].run), results.incomplete)
    /\ BagIn(ErrorRec("rule_error", tasks[k].rule.id, "-", tasks[k].run), errors)
    /\ tasks[j].run = tasks[k].run /\ tasks[j].race = "pending"

\* C4: every bucket entry and every error record of a report returned by
\* run() was written by that run() call.
C4_RunsIsolated ==
  \A r \in 1..Len(runs) : Returned(r) =>
    /\ \A b \in Buckets : \A e \in BagToSet(runs[r].results0[b]) : e.run = r
    /\ \A e \in BagToSet(runs[r].errors0) : e.run = r

SettledCount(t) == IF t.exec = "ended" THEN Len(t.elements) ELSE t.idx - 1

OutcomeKind(t, i) == Behaviour(t.rule.evaluate, t.elements[i]).o.kind

SelectorThrows(t) ==
  /\ t.rule.selector \notin {"", "html", "body"}
  /\ querySelectorAll(runs[t.run].root,
                      IF t.rule.selector = "*" THEN "textSelectors"
                      ELSE t.rule.selector).throws

\* C8: a rule of the current run whose selector throws when queried has no
\* predicate call, is filed once in inapplicable without nodes and in no
\* other bucket, the log holds one selector_error record per such rule
\* (carrying the selector), every other registered rule selected for the run
\* still has its task and is evaluated, and the run does not reject for it.
C8_SelectorErrorContained ==
  \A k \in 1..Len(tasks) :
    LET t == tasks[k]
        r == t.run
    IN (r = Len(runs) /\ SelectorThrows(t)) =>
       /\ t.exec = "ended" /\ t.calls = <<>> /\ t.nodes = <<>>
       /\ CopiesIn(Entry(t.rule, <<>>, r), results.inapplicable) = 1
       /\ \A b \in Buckets \ {"inapplicable"} :
            \A e \in BagToSet(results[b]) : ~(e.id = t.rule.id /\ e.run = r)
       /\ CopiesIn(ErrorRec("selector_error", "-", t.rule.selector, r), errors)
            = Cardinality({j \in 1..Len(tasks) :
                             /\ tasks[j].run = r
                             /\ tasks[j].rule.selector = t.rule.selector})
       /\ \A id \in Range(runs[r].rulesToRun) :
            ruleIndex(runs[r].rules0, id) # 0 =>
              \E j \in 1..Len(tasks) :
                /\ tasks[j].run = r /\ tasks[j].rule.id = id
                /\ tasks[j].located > 0 => tasks[j].calls # <<>>
       /\ runs[r].status = "rejected" => runs[r].cbThrew

\* a returned run with the rule of the throwing selector in inapplicable, the
\* record in its log, and a rule launched after it filed with nodes
C8_Witness ==
  \E k \in 1..Len(tasks) : \E j \in 1..Len(tasks) :
    LET t == tasks[k] IN
    /\ t.run = Len(runs) /\ Returned(t.run) /\ SelectorThrows(t)
    /\ BagIn(Entry(t.rule, <<>>, t.run), runs[t.run].results0.inapplicable)
    /\ BagIn(ErrorRec("selector_error", "-", t.rule.selector, t.run),
             runs[t.run].errors0)
    /\ j > k /\ tasks[j].run = t.run /\ tasks[j].exec = "ended"
    /\ tasks[j].nodes # <<>>

\* C9: in a report returned by a run with runOnly set, the ids to run are the
\* union of the named rulesets that exist, each once; each id has at most one
\* task, each element at most one predicate call per task, and each id at
\* most one entry in the buckets.
C9_SharedRuleOnce ==
  \A r \in 1..Len(runs) : (Returned(r) /\ options.runOnly.set) =>
    LET ids == runs[r].rulesToRun IN
    /\ Cardinality(Range(ids)) = Len(ids)
    /\ Range(ids) = UNION {Range(runs[r].rulesets0[n]) :
                             n \in Range(options.runOnly.names)
                                     \cap DOMAIN runs[r].rulesets0}
    /\ \A id \in RuleIds :
         /\ Cardinality({k \in 1..Len(tasks) :
                           tasks[k].run = r /\ tasks[k].rule.id = id}) <= 1
         /\ IdCount(runs[r].results0, Buckets, id) <= 1
    /\ \A k \in 1..Len(tasks) :
         tasks[k].run = r => Cardinality(Range(tasks[k].calls)) = Len(tasks[k].calls)

\* C10: in a report returned by a run with runOnly = [R], every entry of every
\* bucket has an id of R's list as registered when the run started.
C10_OnlyRulesOfRuleset ==
  \A r \in 1..Len(runs) :
    (Returned(r) /\ options.runOnly.set /\ Len(options.runOnly.names) = 1) =>
      LET R == options.runOnly.names[1] IN
      \A b \in Buckets : \A e \in BagToSet(runs[r].results0[b]) :
        /\ R \in DOMAIN runs[r].rulesets0
        /\ e.id \in Range(runs[r].rulesets0[R])

\* C11: in every report returned by run(), a rule of that run whose selector
\* located no element has an entry without nodes in inapplicable, no entry in
\* any other bucket, and no predicate call.
C11_NoElementsInapplicable ==
  \A r \in 1..Len(runs) : Returned(r) =>
    \A k \in 1..Len(tasks) :
      (tasks[k].run = r /\ tasks[k].located = 0) =>
        /\ tasks[k].calls = <<>>
        /\ \E e \in BagToSet(runs[r].results0.inapplicable) :
             e.id = tasks[k].rule.id /\ e.nodes = <<>>
        /\ IdCount(runs[r].results0, {"inapplicable"}, tasks[k].rule.id) = 1
        /\ IdCount(runs[r].results0, Buckets \ {"inapplicable"}, tasks[k].rule.id) = 0

\* C12: when run() returns its report, a rule of that run that located at
\* least one element and whose evaluation has ended without a NodeResult has
\* no entry in any of the four buckets.
C12_NoNodesNoEntry ==
  [][\A r \in 1..Len(runs) :
       (SameRuns /\ runs[r].status = "awaiting" /\ runs'[r].status = "resolved") =>
         \A k \in 1..Len(tasks') :
           (/\ tasks'[k].run = r /\ tasks'[k].located > 0
            /\ tasks'[k].exec = "ended" /\ tasks'[k].nodes = <<>>)
           => IdCount(runs'[r].results0, Buckets, tasks'[k].rule.id) = 0]_vars

\* the bucket the precedence of C13 gives a non-empty node list
PrecedenceBucket(nodes) ==
  IF \E i \in 1..Len(nodes) : nodes[i].incomplete = "true" THEN "incomplete"
  ELSE IF \A i \in 1..Len(nodes) : nodes[i].passed = "true" THEN "passes"
  ELSE "violations"

\* C13: every bucket entry with at least one NodeResult lies in the bucket
\* the precedence gives its nodes (incomplete if any node is incomplete, else
\* passes if every node passed, else violations), and a rule of the current
\* run that has finished with nodes has its entry there.
C13_ClassificationPrecedence ==
  /\ \A b \in Buckets : \A e \in BagToSet(results[b]) :
       e.nodes # <<>> => b = PrecedenceBucket(e.nodes)
  /\ \A k \in 1..Len(tasks) :
       (/\ tasks[k].run = Len(runs) /\ tasks[k].exec = "ended"
        /\ tasks[k].nodes # <<>>)
       => BagIn(Entry(tasks[k].rule, tasks[k].nodes, tasks[k].run),
                results[PrecedenceBucket(tasks[k].nodes)])

\* a rule filed in incomplete although one of its nodes failed, next to a
\* rule filed in violations for a node that did not pass
C13_Witness ==
  /\ \E e \in BagToSet(results.incomplete) :
       /\ \E i \in 1..Len(e.nodes) : e.nodes[i].passed = "false"
       /\ \E i \in 1..Len(e.nodes) : e.nodes[i].incomplete = "true"
  /\ \E e \in BagToSet(results.violations) :
       /\ e.nodes # <<>>
       /\ \A i \in 1..Len(e.nodes) : e.nodes[i].incomplete # "true"

\* run r has assembled a report (and returned it, or handed it to a callback
\* that threw)
Reported(r) == runs[r].report # NoReport

\* C14: a report carries an errors field, the log array of its run, exactly
\* when the log is not empty and silent is off; the log is written whether
\* silent is on or off (a rule cut at the element cap has its record in it).
C14_ErrorsFieldIffLoggedAndNotSilent ==
  \A r \in 1..Len(runs) : Reported(r) =>
    /\ runs[r].report.errs # 0
         <=> (BagCardinality(runs[r].errors0) > 0 /\ ~options.silent)
    /\ runs[r].report.errs # 0 => runs[r].report.errs = r
    /\ \A k \in 1..Len(tasks) :
         (tasks[k].run = r /\ tasks[k].located > options.maxElements) =>
           \E e \in BagToSet(runs[r].errors0) :
             e.type = "element_limit" /\ e.rule = tasks[k].rule.id

\* a report without errors field returned by a silent engine whose log holds
\* records
C14_Witness ==
  \E r \in 1..Len(runs) :
    /\ Returned(r) /\ options.silent
    /\ BagCardinality(runs[r].errors0) > 0
    /\ runs[r].report.errs = 0

\* a report without errors field returned by an engine that is not silent
\* and whose log is empty
C14_CleanRun ==
  \E r \in 1..Len(runs) :
    /\ Returned(r) /\ ~options.silent
    /\ BagCardinality(runs[r].errors0) = 0
    /\ runs[r].report.errs = 0

LaunchedIds(r) == {tasks[k].rule.id : k \in tasksOf(World, r)}

RegisteredIds(rs) == {rs[i].id : i \in 1..Len(rs)}

\* the engine was constructed with an argument whose key is as stated
CallerGave(key, given) ==
  \E o \in ConstructorArguments : o[key].given = given /\ options = construct(o)

LatestRun(r) == r = Len(runs) /\ runs[r].status # "past" /\ runs[r].resolvable

C16_UndefinedRun ==
  \E r \in 1..Len(runs) :
    /\ LatestRun(r) /\ Returned(r)
    /\ CallerGave("runOnly", "undefined") /\ CallerGave("resultTypes", "undefined")
    /\ LaunchedIds(r) = RegisteredIds(runs[r].rules0)
    /\ runs[r].report.keys = Buckets

\* the definitions the registry holds under an id
Definitions(rs, id) == {rs[i] : i \in {j \in 1..Len(rs) : rs[j].id = id}}

\* C17: a registerRule(rule) call with rule.id or rule.evaluate absent throws
\* and leaves the registry as it was; any other call leaves the registry
\* holding exactly that rule under rule.id, with as many entries as before
\* when the id was registered already and one more otherwise, and with every
\* other id's entry as before.
C17_RegisterRule ==
  [][\A rule \in RuleObjects : registerRule(rule) =>
       IF rule.id = "" \/ rule.evaluate = "none"
       THEN threw' /\ rules' = rules
       ELSE /\ ~threw'
            /\ Definitions(rules', rule.id) = {rule}
            /\ Cardinality({i \in 1..Len(rules') : rules'[i].id = rule.id}) = 1
            /\ Len(rules') = IF rule.id \in RegisteredIds(rules)
                             THEN Len(rules) ELSE Len(rules) + 1
            /\ \A id \in RegisteredIds(rules) \cup RegisteredIds(rules') :
                 id # rule.id => Definitions(rules', id) = Definitions(rules, id)]_vars

\* img-slow was registered again with another definition: the registry has
\* the new one and is as long as the factory's
C17_Witness ==
  /\ regs > 0 /\ ~threw
  /\ Definitions(rules, "img-slow") = {Rule("img-slow", "p", "late")}
  /\ Definitions(FactoryRules, "img-slow") # {Rule("img-slow", "p", "late")}
  /\ Len(rules) = Len(FactoryRules)

\* a registerRule call threw and the registry is the factory's
C17_Rejected == regs > 0 /\ threw /\ rules = FactoryRules

\* what the latest run did with the ids of its rulesets: an id no rule is
\* registered under has no task, no entry in a bucket and no record in the
\* log; every other id has a task
UnregisteredSkipped(r) ==
  \A id \in Range(runs[r].rulesToRun) :
    IF id \in RegisteredIds(runs[r].rules0)
    THEN id \in LaunchedIds(r)
    ELSE /\ id \notin LaunchedIds(r)
         /\ IdCount(results, Buckets, id) = 0
         /\ IdCount(runs[r].results0, Buckets, id) = 0
         /\ \A e \in BagToSet(errors) \cup BagToSet(runs[r].errors0) : e.rule # id

\* C18: registerRuleset(name, ids) leaves the registry of rulesets holding
\* ids, as given, under name, changes no other ruleset and no rule, and does
\* not throw, whether or not the ids are registered; and in the latest run an
\* id of its rulesets without a registered rule has no task, no bucket entry
\* and no ErrorRecord, while every id with a rule registered when the run
\* started, after the ruleset or before, has a task.
C18_RulesetVerbatim ==
  [][/\ \A name \in RulesetNames, ruleIds \in IdLists :
          registerRuleset(name, ruleIds) =>
            /\ name \in DOMAIN rulesets' /\ rulesets'[name] = ruleIds
            /\ DOMAIN rulesets' = DOMAIN rulesets \cup {name}
            /\ \A n \in DOMAIN rulesets : n # name => rulesets'[n] = rulesets[n]
            /\ rules' = rules /\ ~threw'
     /\ \A r \in 1..Len(runs') : (LatestRun(r) => UnregisteredSkipped(r))'
    ]_vars

\* ruleset A was registered with a list that names img-hang twice and the
\* unregistered id later; the run that followed has returned, had later
\* among its ids, started img-hang and nothing for later
C18_Witness ==
  \E r \in 1..Len(runs) :
    /\ LatestRun(r) /\ Returned(r)
    /\ runs[r].rulesets0["A"] = <<"img-hang", "later", "img-hang">>
    /\ "later" \in Range(runs[r].rulesToRun) \ RegisteredIds(runs[r].rules0)
    /\ "img-hang" \in LaunchedIds(r) /\ "later" \notin LaunchedIds(r)

\* a rule was registered under later, an id ruleset B has listed since
\* construction, and the run that followed started it
C18_PickedUp ==
  \E r \in 1..Len(runs) :
    /\ LatestRun(r)
    /\ "later" \notin RegisteredIds(FactoryRules)
    /\ "later" \in Range(FactoryRulesets["B"])
    /\ "later" \in LaunchedIds(r)

\* run r was called with a target it can resolve and has not been forgotten
Called(r) == r <= Len(runs) /\ runs[r].status # "past" /\ runs[r].resolvable

C20_ContrastSymmetricAtLeastOne ==
  \A c \in contrasts :
    /\ \A d \in contrasts :
         (d.fgColor = c.bgColor /\ d.bgColor = c.fgColor) => d.contrast = c.contrast
    /\ \/ c.contrast.kind = "Infinity"
       \/ c.contrast.kind = "ratio" /\ c.contrast.num >= c.contrast.den
    /\ c.fgColor = c.bgColor =>
         (c.contrast.kind = "ratio" /\ c.contrast.num = c.contrast.den)

\* the same for the calls whose colours have channels below OverflowDigits
\* digits
C20_FiniteContrast ==
  \A c \in contrasts :
    (\A col \in {c.fgColor, c.bgColor}, ch \in {"r", "g", "b"} :
       parseColor(col)[ch].kind = "integer") =>
      /\ \A d \in contrasts :
           (d.fgColor = c.bgColor /\ d.bgColor = c.fgColor) => d.contrast = c.contrast
      /\ c.contrast.kind = "ratio" /\ c.contrast.num >= c.contrast.den
      /\ parseColor(c.fgColor) = parseColor(c.bgColor) =>
           c.contrast.num = c.contrast.den

\* black on white and white on black were both asked for: 21 both times
C20_BlackOnWhite ==
  \E c \in contrasts, d \in contrasts :
    /\ c.fgColor = <<"#", "0", "0", "0", "0", "0", "0">>
    /\ c.bgColor = <<"#", "f", "f", "f", "f", "f", "f">>
    /\ d.fgColor = c.bgColor /\ d.bgColor = c.fgColor
    /\ c.contrast = Quotient("ratio", 1050000000, 50000000)
    /\ d.contrast = c.contrast

\* what has been written for rule id by the tasks of run r: its entries in
\* the buckets and its records in the log
WrittenFor(W, id, r) ==
  LET mine(e) == e.id = id /\ e.run = r
      rec(e)  == e.rule = id /\ e.run = r
  IN BagCount(W.results.violations, mine) + BagCount(W.results.passes, mine)
     + BagCount(W.results.incomplete, mine) + BagCount(W.results.inapplicable, mine)
     + BagCount(W.errors, rec)

\* task t was filed as timed out / has finished its evaluation
TimedOut(t) == t.race = "lost"
Finished(t) == t.exec = "ended"

\* C21: in a step that is no run() call, nothing is written for a rule whose
\* task was filed as timed out before the step, nor for one whose
\* evaluation had ended (inapplicable, classified or dropped).
C21_TerminalAbsorbing ==
  [][SameRuns =>
       \A k \in 1..Len(tasks) :
         (TimedOut(tasks[k]) \/ Finished(tasks[k])) =>
           WrittenFor(World', tasks[k].rule.id, tasks[k].run)
             = WrittenFor(World, tasks[k].rule.id, tasks[k].run)]_vars

\* the position of element el among the elements task t checks
Position(t, el) == CHOOSE i \in 1..Len(t.elements) : t.elements[i] = el

\* C22: in every task the predicate calls made so far are the first idx
\* checked elements in location order; all of them but, while the
\* evaluation waits, the last have settled; and the NodeResults are those of
\* called elements, in location order.  In a step that adds a call the
\* calls before it had all settled.
C22_LocationOrder ==
  [][\A k \in 1..Len(tasks') :
       LET t == tasks'[k] IN
       /\ t.calls = SubSeq(t.elements, 1, t.idx)
       /\ \A i \in 1..Len(t.nodes) :
            /\ \E p \in 1..t.idx : t.elements[p] = t.nodes[i].element
            /\ \A j \in (i + 1)..Len(t.nodes) :
                 Position(t, t.nodes[i].element) < Position(t, t.nodes[j].element)
       /\ (t.exec = "awaiting" /\ t.idx > 0) =>
            /\ Behaviour(t.rule.evaluate, t.elements[t.idx]).t # "micro"
            /\ \A i \in 1..Len(t.nodes) : t.nodes[i].element # t.elements[t.idx]
       /\ (SameRuns /\ k <= Len(tasks) /\ Len(t.calls) > Len(tasks[k].calls)) =>
            /\ tasks[k].exec = "awaiting"
            /\ \A p \in (tasks[k].idx + 1)..(t.idx - 1) :
                 Behaviour(t.rule.evaluate, t.elements[p]).t = "micro"]_vars

\* a rule whose first call settled in a macrotask of its own has ended with
\* the NodeResults of its first and third element, in that order, in a run
\* with another rule whose call is still in flight
C22_Witness ==
  \E k \in 1..Len(tasks), j \in 1..Len(tasks) :
    /\ j # k /\ tasks[j].run = tasks[k].run
    /\ tasks[j].exec = "awaiting" /\ tasks[j].idx > 0
    /\ tasks[k].exec = "ended" /\ Len(tasks[k].nodes) = 2
    /\ Behaviour(tasks[k].rule.evaluate, tasks[k].elements[1]).t = "macro"
    /\ tasks[k].nodes[1].element = tasks[k].elements[1]
    /\ tasks[k].nodes[2].element = tasks[k].elements[3]

\* C23: two _getSelector calls for distinct elements of a document (whose ids
\* are unique) return different paths.
C23_PathsIdentify ==
  \A a \in targets, b \in targets :
    a.element # b.element => a.target # b.target

\* the same for the documents in which no element has maxDepth or more
\* elements above it
C23_ShallowPathsIdentify ==
  (\A e \in dom.nodes : Len(e) <= maxDepth) =>
    \A a \in targets, b \in targets :
      a.element # b.element => a.target # b.target

\* the path of a third-of-its-kind shortcut: the element under the one with
\* the id gets "#main > div"
C23_IdShortcut ==
  \E a \in targets : a.target = <<"#", "main", " > ", "div">>

\* the elements of the document in document order, and those below a
\* context root
DocumentOrder == <<Html, Body, Img(1), Div>> \o Imgs(2) \o <<Para>>

Descendants(context) ==
  CASE context = Html -> Range(DocumentOrder) \ {Html}
    [] context = Body -> Range(DocumentOrder) \ {Html, Body}
    [] context = Div  -> Range(Imgs(2))
    [] OTHER          -> {}

\* the elements below the context whose tag is one of tags, in document order
Matches(context, tags) ==
  SelectSeq(DocumentOrder, LAMBDA e : e \in Descendants(context) /\ e[1] \in tags)

\* the tag names of line 307
TextTags ==
  {"p", "span", "div", "h1", "h2", "h3", "h4", "h5", "h6", "li", "td", "th",
   "a", "button"}

\* C24: a _getElements call returns the context root alone for the empty
\* selector; for html and body the document's element of that name, whatever
\* the context (one element at most); for * the elements below the context
\* with a tag of TextTags; for a tag name the elements below the context
\* with that tag; the last two in document order.
C24_Locate ==
  \A c \in located :
    CASE c.selector = "" -> c.elements = <<c.context>>
      [] c.selector \in {"html", "body"} ->
           /\ Len(c.elements) <= 1
           /\ c.elements = Matches(Html, {c.selector}) \o
                             (IF c.selector = "html" THEN <<Html>> ELSE <<>>)
      [] c.selector = "*" -> c.elements = Matches(c.context, TextTags)
      [] c.selector \in {"img", "p", "video"} ->
           c.elements = Matches(c.context, {c.selector})
      [] OTHER -> c.elements = <<>>

\* body was asked for from the element context, which does not hold it, and
\* the wildcard from the document's root
C24_Witness ==
  /\ \E c \in located :
       c.selector = "body" /\ c.context = Div /\ c.elements = <<Body>>
  /\ \E c \in located :
       c.selector = "*" /\ c.context = Html /\ c.elements = <<Div, Para>>

C25_OuterTimerFired ==
  \E i \in 1..Len(scan.timers) : scan.timers[i].kind = "outer" /\ scan.timers[i].fired

\* testUrl returned the catch block's empty arrays
C25_EmptyReturned == scan.phase = "returned" /\ scan.kind = "empty"

\* C26: while a returned report's arrays are those this.results and
\* this.errors reference, the buckets the report holds and its errors list
\* have the contents they had when run() returned.
C26_ReportStable ==
  \A r \in 1..Len(runs) :
    (Returned(r) /\ runs[r].report.res = Len(runs)) =>
      /\ \A b \in runs[r].report.keys : results[b] = runs[r].results0[b]
      /\ runs[r].report.errs # 0 => errors = runs[r].errors0

\* C27: a run() call that was passed a callback and has settled has invoked
\* it exactly once: with the report if the run resolved, with the error if it
\* rejected.
C27_CallbackOnce ==
  \A r \in 1..Len(runs) :
    (runs[r].callback /\ runs[r].status \in {"resolved", "rejected"}) =>
      runs[r].cbCalls = IF runs[r].status = "resolved"
                        THEN <<"report">> ELSE <<"error">>

\* a callback was handed the report of a run that resolved
C27_ReportHanded ==
  \E r \in 1..Len(runs) :
    runs[r].callback /\ runs[r].status = "resolved" /\ runs[r].cbCalls = <<"report">>

\* the bucket entries and error records in W that tasks of run r wrote
WrittenBy(W, r) ==
  UNION {{e \in BagToSet(W.results[b]) : e.run = r} : b \in Buckets}
    \cup {e \in BagToSet(W.errors) : e.run = r}

\* C28: with run() calls that overlap, no step takes what a waiting run's
\* tasks have written out of the arrays its report will hold, and a report
\* assembled in the step holds nothing another run's tasks wrote.
C28_OverlapIsolated ==
  [][\A r \in 1..Len(runs) :
       runs[r].status = "awaiting" =>
         /\ WrittenBy(World, r) \subseteq WrittenBy(World', r)
         /\ runs'[r].status = "resolved" =>
              /\ \A b \in Buckets :
                   \A e \in BagToSet(runs'[r].results0[b]) : e.run = r
              /\ \A e \in BagToSet(runs'[r].errors0) : e.run = r]_vars

\* a second run() call was made while the first one waited
C28_Overlapping ==
  /\ Len(runs) = 2
  /\ runs[1].status = "awaiting"
  /\ runs[2].status = "awaiting"

\* every predicate call run r makes settles without a macrotask: each rule it
\* launches has such a predicate on each element it checks
SyncRun(r) ==
  \A i \in 1..Len(runs[r].rulesToRun) :
    LET j == ruleIndex(runs[r].rules0, runs[r].rulesToRun[i])
    IN j # 0 =>
         LET rule == runs[r].rules0[j]
             els  == elementsToCheck(getElements(rule.selector, runs[r].root).els,
                                     options.maxElements)
         IN \A n \in 1..Len(els) : Behaviour(rule.evaluate, els[n]).t = "micro"

\* C29: a run all of whose predicate calls settle without a macrotask has
\* settled when the run() call's macrotask ends, the global timeout never
\* ends it, its log has no timeout record, no rule timer rejects one of its
\* races and none of its rules is filed in incomplete without nodes.
C29_NoTimeoutWithoutSuspension ==
  \A r \in 1..Len(runs) :
    (runs[r].status # "past" /\ SyncRun(r)) =>
      /\ runs[r].status # "awaiting"
      /\ ~runs[r].timedOut
      /\ \A e \in BagToSet(errors) : e.run = r => e.type # "timeout"
      /\ \A k \in 1..Len(tasks) : tasks[k].run = r => tasks[k].race # "lost"
      /\ \A e \in BagToSet(results.incomplete) : e.run = r => e.nodes # <<>>

\* a run of that kind has returned, one of its rules having called its
\* predicate on two elements
C29_Witness ==
  \E r \in 1..Len(runs) :
    /\ Returned(r)
    /\ SyncRun(r)
    /\ \E k \in 1..Len(tasks) :
         tasks[k].run = r /\ Len(tasks[k].calls) >= 2 /\ tasks[k].race = "won"

C30_AloneRunning ==
  \E i \in 1..Len(api.calls) :
    /\ api.calls[i] = "running"
    /\ api.window = i
    /\ \A j \in 1..Len(api.calls) : j # i => api.calls[j] \in {"fetching", "failed"}

====
